---- MODULE Spec2Model ----
\* Verification model of pipelined/audio: Mixer (fan-in), Repeater (fan-out)
\* and Track (timeline of clips).  Each component has its own specification
\* (SpecMixer, SpecRepeater, SpecTrack) over the shared variable list; the
\* variables of the other components stay at their initial values.
EXTENDS Integers, Sequences, FiniteSets, TLC

\* ---------------------------------------------------------------- bounds
MaxInputs == 2          \* Mixer producers bound to one mixer
MaxFrames == 3          \* frames one Mixer producer / the Repeater sink sends
MaxSources == 2         \* Repeater sources registered with one repeater
MaxClips == 3           \* AddClip calls on one Track
MaxLength == 5          \* samples per channel of the signal behind audio.Source
MaxFrameCap == 3        \* frame capacity audio.Source is pulled with
MaxSemaphore == 2       \* the limit a Semaphore is made with
MaxCallers == 2         \* goroutines that call one Semaphore
MaxCalls == 4           \* calls of Acquire and Release on one Semaphore

\* ------------------------------------------------------ program constants
BufferSize == 2         \* bufferSize of TestMixer
TestChannels == 1       \* numChannels of TestMixer
TestSampleRate == 44100
\* Sample values are kept in units of 1/120, so that the mean of up to four
\* inputs is exact: 0.5 is 60, 0.7 is 84, their mean 0.6 is 72.
ValueA == 84
ValueB == 60
ValueStep == 12

\* generators of TestMixer, "1st run": 8 messages of 0.7 and 6 of 0.5
MessagesA == 8
MessagesB == 6

Max(a, b) == IF a > b THEN a ELSE b
Min(a, b) == IF a < b THEN a ELSE b

\* --------------------------------------------------- signal library shapes
\* A floating buffer is the sequence of its samples; Len() is its length in
\* samples, Length() its length per channel.
ZeroFrame(n) == [j \in 1..n |-> 0]

\* m.pool.Float64(): a buffer of full length from the pool allocator.
PoolFloat64(ch) == ZeroFrame(BufferSize * ch)

\* signal.FloatingAsFloating(src, dst): copies min(Len) samples into dst.
CopyInto(src, dst) ==
    [j \in 1..Len(dst) |-> IF j <= Len(src) THEN src[j] ELSE dst[j]]

\* the number of samples per channel FloatingAsFloating reports
Copied(src, dst, ch) == Min(Len(src), Len(dst)) \div ch

\* Floating.Slice(0, n)
SliceTo(buf, n, ch) == SubSeq(buf, 1, n * ch)

VARIABLES
    \* Mixer
    initialized,    \* m.initialize has run
    sampleRate,     \* m.sampleRate
    channels,       \* m.channels
    bind,           \* the last call of the sink allocator: its properties, its error
    inputs,         \* m.inputs: the live input handles, in order
    input,          \* the mixerInput behind each handle
    gens,           \* what each producer emits (mock.Source Value / Limit)
    prod,           \* each producer line: position in SinkFunc, argument
    sent,           \* frames each producer has copied into its staging buffer
    src,            \* the consumer line: position in SourceFunc, loop index
    output,         \* mixerOutput
    emitted,        \* frames the mixer source has returned
    mixed,          \* the staging frames added to the accumulator, per input,
                    \* each with the number of the pull it was added in
    cancelled       \* the context of StartFunc is done

    \* Repeater
VARIABLES
    sources,        \* r.sources: the mailboxes the sink delivers to
    mailbox,        \* each source's channel: queued messages, closed
    rsink,          \* the sink line: position in SinkFunc, loop index, out
    rsrc,           \* each source line: position in SourceFunc, messagePtr
    pool,           \* the buffers of the pool allocator: state and samples
    dispatched,     \* frames the sink was called with
    received,       \* frames each source has returned
    freeLog,        \* message.sources values at which a buffer was freed
    doubleFree,     \* a buffer was freed while it was in the pool
    rcancelled,     \* the context the lines of the repeater run with is done
    rpanic          \* "none", or the run-time panic of a channel operation

    \* Track
VARIABLES
    links,          \* the links allocated so far; a link is named by its index, 0 is nil
    head,           \* t.head
    tail,           \* t.tail
    terr,           \* "none", or how an operation on the track failed
    added,          \* position and data of the AddClip calls made, in order
    rd,             \* the track source: current, pos, the window asked for
    played,         \* the samples the track source has returned so far
    frames          \* the number of samples each call of the source returned

mixerVars == <<initialized, sampleRate, channels, bind, inputs, input, gens, prod,
               sent, src, output, emitted, mixed, cancelled>>

repeaterVars == <<sources, mailbox, rsink, rsrc, pool, dispatched, received,
                  freeLog, doubleFree, rcancelled, rpanic>>

    \* audio.Source
VARIABLES
    fdata,          \* data: the signal floatingSource reads
    fpos,           \* pos
    fcap,           \* the length of the frames the source is pulled with
    fpc,            \* "none", "open", or "eof" once io.EOF was returned
    fout,           \* the frames returned so far, each cut to the samples read
    freads          \* the number of samples per channel each pull returned

    \* semaphore.Semaphore
VARIABLES
    limit,          \* the channel: cap 0 before New, len the values buffered
    caller,         \* per goroutine: where it is, its context, how Acquire ended
    calls           \* calls made, Acquires that took a value, Releases that sent

trackVars == <<links, head, tail, terr, added, rd, played, frames>>

semaphoreVars == <<limit, caller, calls>>

floatVars == <<fdata, fpos, fcap, fpc, fout, freads>>

vars == <<mixerVars, repeaterVars, trackVars, floatVars, semaphoreVars>>

\* what the actions of one component leave alone
notMixer == <<repeaterVars, trackVars, floatVars, semaphoreVars>>
notRepeater == <<mixerVars, trackVars, floatVars, semaphoreVars>>
notTrack == <<mixerVars, repeaterVars, floatVars, semaphoreVars>>
notFloat == <<mixerVars, repeaterVars, trackVars, semaphoreVars>>
notSemaphore == <<mixerVars, repeaterVars, trackVars, floatVars>>

InputIds == 1..MaxInputs

\* ------------------------------------------------------------------ Mixer
\* the frame number k a generator emits, of n samples per channel
GenFrame(g, k, n, ch) == [j \in 1..(n * ch) |-> g.value + g.step * (k - 1)]

\* mock.Source: a constant Value, Limit frames; besides the two generators of
\* TestMixer, generators whose frames differ from one frame to the next.
TestGens == {[value |-> ValueA, step |-> 0, limit |-> MessagesA],
             [value |-> ValueB, step |-> 0, limit |-> MessagesB]}
VaryGens == {[value |-> ValueB, step |-> ValueStep, limit |-> n] : n \in {0, 1, MaxFrames}}
Gens == TestGens \cup VaryGens

\* newMixerInput: the write token is available, the read side is empty.
NewMixerInputBad(buf) == [write |-> 1, read |-> 1, closed |-> FALSE, buffer |-> buf, freed |-> FALSE]
NewMixerInput(buf) == [write |-> 1, read |-> 0, closed |-> FALSE, buffer |-> buf, freed |-> FALSE]

NoInput == [write |-> 0, read |-> 0, closed |-> FALSE, buffer |-> <<>>, freed |-> FALSE]
NoGen == [value |-> 0, step |-> 0, limit |-> 0]
NoProd == [pc |-> "unbound", floats |-> <<>>]

MixerInit ==
    /\ initialized = FALSE
    /\ sampleRate = 0
    /\ channels = 0
    /\ bind = [sr |-> 0, ch |-> 0, err |-> "none"]
    /\ inputs = <<>>
    /\ input = [i \in InputIds |-> NoInput]
    /\ gens = [i \in InputIds |-> NoGen]
    /\ prod = [i \in InputIds |-> NoProd]
    /\ sent = [i \in InputIds |-> <<>>]
    /\ src = [pc |-> "unbound", i |-> 0, err |-> "none", props |-> <<0, 0>>]
    /\ output = [buffer |-> <<>>, len |-> 0, freed |-> FALSE]
    /\ emitted = <<>>
    /\ mixed = [i \in InputIds |-> <<>>]
    /\ cancelled = FALSE

Bound == {i \in InputIds : prod[i].pc # "unbound"}

\* the properties sink allocators are called with
SampleRates == {TestSampleRate, 2 * TestSampleRate}
ChannelCounts == {TestChannels, TestChannels + 1}

\* the error of the sink allocator for the recorded (rate, chs) and the
\* properties (sr, ch) of the call
SinkErrorBad(rate, chs, sr, ch) ==
    IF rate # sr \/ chs # ch THEN "ErrDifferentSampleRates" ELSE "none"
SinkError(rate, chs, sr, ch) ==
    IF rate # sr THEN "ErrDifferentSampleRates"
    ELSE IF chs # ch THEN "ErrDifferentChannels"
    ELSE "none"

\* the sink allocator returns before it allocates an input
RejectedBad(err) == err = "ErrDifferentSampleRates"
Rejected(err) == err # "none"

\* Mixer.Sink allocator: the first call records the properties, a later call
\* with other properties is rejected, a matching one appends an input.
MixerSink(sr, ch, g) ==
    /\ src.pc = "unbound"
    /\ Cardinality(Bound) < MaxInputs
    /\ LET first == ~initialized
           rate == IF first THEN sr ELSE sampleRate
           chs == IF first THEN ch ELSE channels
           id == Cardinality(Bound) + 1
           err == SinkError(rate, chs, sr, ch)
       IN /\ initialized' = TRUE
          /\ sampleRate' = rate
          /\ channels' = chs
          /\ bind' = [sr |-> sr, ch |-> ch, err |-> err]
          /\ IF Rejected(err)
             THEN UNCHANGED <<inputs, input, gens, prod>>
             ELSE /\ inputs' = Append(inputs, id)
                  /\ input' = [input EXCEPT ![id] = NewMixerInput(PoolFloat64(chs))]
                  /\ gens' = [gens EXCEPT ![id] = g]
                  /\ prod' = [prod EXCEPT ![id] = [pc |-> "idle", floats |-> <<>>]]
    /\ UNCHANGED <<cancelled, sent, src, output, emitted, mixed, notMixer>>

\* Mixer.Source allocator: panics when no sink was bound before; otherwise
\* the source exposes the recorded sample rate and channels.
MixerSourceBad ==
    /\ src.pc = "unbound"
    /\ src' = [src EXCEPT !.pc = "idle", !.props = <<sampleRate, channels>>]
    /\ output' = [buffer |-> PoolFloat64(channels), len |-> 0, freed |-> FALSE]
    /\ UNCHANGED <<cancelled, initialized, sampleRate, channels, bind, inputs, input, gens, prod, sent, emitted, mixed, notMixer>>
MixerSource ==
    /\ src.pc = "unbound"
    /\ IF ~initialized
       THEN /\ src' = [src EXCEPT !.pc = "panic", !.err = "mixer source bound before sink"]
            /\ UNCHANGED output
       ELSE /\ src' = [src EXCEPT !.pc = "idle", !.props = <<sampleRate, channels>>]
            /\ output' = [buffer |-> PoolFloat64(channels), len |-> 0, freed |-> FALSE]
    /\ UNCHANGED <<cancelled, initialized, sampleRate, channels, bind, inputs, input, gens, prod, sent, emitted, mixed, notMixer>>

Running == src.pc \notin {"unbound", "panic"}

\* SinkFunc is called with the next frame of the producer's generator: full
\* frames, and a last frame that may be shorter.
SinkCall(i, n) ==
    /\ Running
    /\ prod[i].pc = "idle"
    /\ Len(sent[i]) < gens[i].limit
    /\ n = BufferSize \/ Len(sent[i]) + 1 = gens[i].limit
    /\ prod' = [prod EXCEPT ![i] = [pc |-> "wait",
                    floats |-> GenFrame(gens[i], Len(sent[i]) + 1, n, channels)]]
    /\ UNCHANGED <<cancelled, initialized, sampleRate, channels, bind, inputs, input, gens, sent, src, output, emitted, mixed, notMixer>>

\* chanMutex.wait on the write token: it is taken when it is there
WriteReadyBad(in) == TRUE
WriteReady(in) == in.write = 1

\* input.write.wait(sinkCtx)
SinkWait(i) ==
    /\ prod[i].pc = "wait"
    /\ WriteReady(input[i])
    /\ input' = [input EXCEPT ![i].write = 0]
    /\ prod' = [prod EXCEPT ![i].pc = "copy"]
    /\ UNCHANGED <<cancelled, initialized, sampleRate, channels, bind, inputs, gens, sent, src, output, emitted, mixed, notMixer>>

\* n := FloatingAsFloating(floats, input.buffer); a short copy narrows the
\* staging buffer.
SinkCopy(i) ==
    /\ prod[i].pc = "copy"
    /\ LET buf == CopyInto(prod[i].floats, input[i].buffer)
           n == Copied(prod[i].floats, input[i].buffer, channels)
       IN input' = [input EXCEPT ![i].buffer =
                        IF n # BufferSize THEN SliceTo(buf, n, channels) ELSE buf]
    /\ sent' = [sent EXCEPT ![i] = Append(@, prod[i].floats)]
    /\ prod' = [prod EXCEPT ![i].pc = "notify"]
    /\ UNCHANGED <<cancelled, initialized, sampleRate, channels, bind, inputs, gens, src, output, emitted, mixed, notMixer>>

\* input.read.notify(sinkCtx)
SinkNotify(i) ==
    /\ prod[i].pc = "notify"
    /\ input[i].read = 0
    /\ input' = [input EXCEPT ![i].read = 1]
    /\ prod' = [prod EXCEPT ![i] = [pc |-> "idle", floats |-> <<>>]]
    /\ UNCHANGED <<cancelled, initialized, sampleRate, channels, bind, inputs, gens, sent, src, output, emitted, mixed, notMixer>>

\* close(input.read)
CloseReadBad(in) == in
CloseRead(in) == [in EXCEPT !.closed = TRUE]

\* FlushFunc of the sink: close(input.read)
SinkFlush(i) ==
    /\ Running
    /\ prod[i].pc = "idle"
    /\ Len(sent[i]) = gens[i].limit
    /\ input' = [input EXCEPT ![i] = CloseRead(@)]
    /\ prod' = [prod EXCEPT ![i].pc = "flushed"]
    /\ UNCHANGED <<cancelled, initialized, sampleRate, channels, bind, inputs, gens, sent, src, output, emitted, mixed, notMixer>>

\* mixerOutput.add
AddBad(out, in) ==
    [out EXCEPT !.len = Max(out.len, Len(in)),
                !.buffer = [j \in 1..Len(out.buffer) |->
                               IF j <= Len(in) THEN in[j] ELSE out.buffer[j]]]
Add(out, in) ==
    [out EXCEPT !.len = Max(out.len, Len(in)),
                !.buffer = [j \in 1..Len(out.buffer) |->
                               IF j <= Len(in) THEN out.buffer[j] + in[j] ELSE out.buffer[j]]]

\* mixerOutput.sum: the samples written to out, and the accumulator reset
SumOutBad(out, n) == [j \in 1..Len(out.buffer) |-> out.buffer[j] \div Cardinality(Bound)]
SumOut(out, n) == [j \in 1..Len(out.buffer) |-> out.buffer[j] \div n]
SumReset(out) == [out EXCEPT !.buffer = ZeroFrame(Len(out.buffer)), !.len = 0]

\* SourceFunc is called: the lock is taken and the loop starts at i = 0.
SourceCall ==
    /\ src.pc = "idle"
    /\ src' = [src EXCEPT !.pc = "loop", !.i = 1]
    /\ UNCHANGED <<cancelled, initialized, sampleRate, channels, bind, inputs, input, gens, prod, sent, output, emitted, mixed, notMixer>>

\* chanMutex.wait on the read token: it is taken when it is there
ReadReadyBad(in) == TRUE
ReadReady(in) == in.read = 1

\* m.inputs[i].read.wait(sourceCtx) returns true: a frame is staged.
SourceWaitOk ==
    /\ src.pc = "loop"
    /\ src.i <= Len(inputs)
    /\ ReadReady(input[inputs[src.i]])
    /\ input' = [input EXCEPT ![inputs[src.i]].read = 0]
    /\ src' = [src EXCEPT !.pc = "add"]
    /\ UNCHANGED <<cancelled, initialized, sampleRate, channels, bind, inputs, gens, prod, sent, output, emitted, mixed, notMixer>>

\* read.wait returns false on the closed, drained channel: the input is
\* freed and removed, the index stays.
RemoveAtBad(s, i) == SubSeq(s, 1, i - 1)
RemoveAt(s, i) == SubSeq(s, 1, i - 1) \o SubSeq(s, i + 1, Len(s))

\* chanMutex.wait reports a closed channel once its token is taken
WaitClosedBad(in) == in.closed
WaitClosed(in) == in.read = 0 /\ in.closed

SourceWaitClosed ==
    /\ src.pc = "loop"
    /\ src.i <= Len(inputs)
    /\ WaitClosed(input[inputs[src.i]])
    /\ input' = [input EXCEPT ![inputs[src.i]].freed = TRUE]
    /\ inputs' = RemoveAt(inputs, src.i)
    /\ UNCHANGED <<cancelled, initialized, sampleRate, channels, bind, gens, prod, sent, src, output, emitted, mixed, notMixer>>

\* output.add(m.inputs[i].buffer)
SourceAdd ==
    /\ src.pc = "add"
    /\ output' = Add(output, input[inputs[src.i]].buffer)
    /\ mixed' = [mixed EXCEPT ![inputs[src.i]] =
                    Append(@, [frame |-> input[inputs[src.i]].buffer,
                               pull |-> Len(emitted) + 1])]
    /\ src' = [src EXCEPT !.pc = "notify"]
    /\ UNCHANGED <<cancelled, initialized, sampleRate, channels, bind, inputs, input, gens, prod, sent, emitted, notMixer>>

\* m.inputs[i].write.notify(sourceCtx); i++
SourceNotify ==
    /\ src.pc = "notify"
    /\ input[inputs[src.i]].write = 0
    /\ input' = [input EXCEPT ![inputs[src.i]].write = 1]
    /\ src' = [src EXCEPT !.pc = "loop", !.i = @ + 1]
    /\ UNCHANGED <<cancelled, initialized, sampleRate, channels, bind, inputs, gens, prod, sent, output, emitted, mixed, notMixer>>

\* len(m.inputs) == 0
NoLiveInputBad(ins) == Len(ins) <= 1
NoLiveInput(ins) == Len(ins) = 0

\* the loop is over: EOF without inputs, otherwise the mixed frame
SourceReturn ==
    /\ src.pc = "loop"
    /\ src.i > Len(inputs)
    /\ IF NoLiveInput(inputs)
       THEN /\ src' = [src EXCEPT !.pc = "eof", !.i = 0]
            /\ UNCHANGED <<output, emitted>>
       ELSE /\ emitted' = Append(emitted,
                    SliceTo(SumOut(output, Len(inputs)), output.len \div channels, channels))
            /\ output' = SumReset(output)
            /\ src' = [src EXCEPT !.pc = "idle", !.i = 0]
    /\ UNCHANGED <<cancelled, initialized, sampleRate, channels, bind, inputs, input, gens, prod, sent, mixed, notMixer>>

\* FlushFunc of the source: output.buffer.Free(m.pool)
SourceFlush ==
    /\ src.pc = "eof"
    /\ output' = [output EXCEPT !.freed = TRUE]
    /\ src' = [src EXCEPT !.pc = "flushed"]
    /\ UNCHANGED <<cancelled, initialized, sampleRate, channels, bind, inputs, input, gens, prod, sent, emitted, mixed, notMixer>>

MixerNext ==
    \/ \E g \in Gens : MixerSink(TestSampleRate, TestChannels, g)
    \/ MixerSource
    \/ \E i \in InputIds, n \in 1..BufferSize : SinkCall(i, n)
    \/ \E i \in InputIds : SinkWait(i)
    \/ \E i \in InputIds : SinkCopy(i)
    \/ \E i \in InputIds : SinkNotify(i)
    \/ \E i \in InputIds : SinkFlush(i)
    \/ SourceCall
    \/ SourceWaitOk
    \/ SourceWaitClosed
    \/ SourceAdd
    \/ SourceNotify
    \/ SourceReturn
    \/ SourceFlush

\* the generators of the runs that are followed to their end: a producer
\* that sends one frame and one that sends MaxFrames frames
FairGens == {[value |-> ValueB, step |-> ValueStep, limit |-> n] : n \in {1, MaxFrames}}

\* a run of the mixer with these producers
MixerFairNext ==
    \/ \E g \in FairGens : MixerSink(TestSampleRate, TestChannels, g)
    \/ MixerSource
    \/ \E i \in InputIds, n \in 1..BufferSize : SinkCall(i, n)
    \/ \E i \in InputIds : SinkWait(i)
    \/ \E i \in InputIds : SinkCopy(i)
    \/ \E i \in InputIds : SinkNotify(i)
    \/ \E i \in InputIds : SinkFlush(i)
    \/ SourceCall
    \/ SourceWaitOk
    \/ SourceWaitClosed
    \/ SourceAdd
    \/ SourceNotify
    \/ SourceReturn
    \/ SourceFlush

\* the framework cancels the context the lines were started with
Cancel ==
    /\ Running
    /\ ~cancelled
    /\ cancelled' = TRUE
    /\ UNCHANGED <<initialized, sampleRate, channels, bind, inputs, input, gens, prod, sent, src, output, emitted, mixed, notMixer>>

\* the case <-ctx.Done() of chanMutex.wait and chanMutex.notify can be taken
DoneBad(c) == FALSE
Done(c) == c

\* input.write.wait(sinkCtx) returns false: SinkFunc returns nil, the frame
\* is not copied and the line ends.
SinkWaitCancelled(i) ==
    /\ prod[i].pc = "wait"
    /\ Done(cancelled)
    /\ prod' = [prod EXCEPT ![i] = [pc |-> "stopped", floats |-> <<>>]]
    /\ UNCHANGED <<cancelled, initialized, sampleRate, channels, bind, inputs, input, gens, sent, src, output, emitted, mixed, notMixer>>

\* input.read.notify(sinkCtx) returns false: no read token is sent, SinkFunc
\* returns nil.
SinkNotifyCancelled(i) ==
    /\ prod[i].pc = "notify"
    /\ Done(cancelled)
    /\ prod' = [prod EXCEPT ![i] = [pc |-> "stopped", floats |-> <<>>]]
    /\ UNCHANGED <<cancelled, initialized, sampleRate, channels, bind, inputs, input, gens, sent, src, output, emitted, mixed, notMixer>>

\* FlushFunc of the sink after cancellation: close(input.read)
SinkFlushCancelled(i) ==
    /\ cancelled
    /\ prod[i].pc \in {"idle", "stopped"}
    /\ input' = [input EXCEPT ![i] = CloseRead(@)]
    /\ prod' = [prod EXCEPT ![i].pc = "flushed"]
    /\ UNCHANGED <<cancelled, initialized, sampleRate, channels, bind, inputs, gens, sent, src, output, emitted, mixed, notMixer>>

\* m.inputs[i].read.wait(sourceCtx) returns false for the done context: the
\* input is freed and removed like a flushed one.
SourceWaitCancelled ==
    /\ src.pc = "loop"
    /\ src.i <= Len(inputs)
    /\ Done(cancelled)
    /\ input' = [input EXCEPT ![inputs[src.i]].freed = TRUE]
    /\ inputs' = RemoveAt(inputs, src.i)
    /\ UNCHANGED <<cancelled, initialized, sampleRate, channels, bind, gens, prod, sent, src, output, emitted, mixed, notMixer>>

\* m.inputs[i].write.notify(sourceCtx) returns false: no write token is
\* returned; i++
SourceNotifyCancelled ==
    /\ src.pc = "notify"
    /\ Done(cancelled)
    /\ src' = [src EXCEPT !.pc = "loop", !.i = @ + 1]
    /\ UNCHANGED <<cancelled, initialized, sampleRate, channels, bind, inputs, input, gens, prod, sent, output, emitted, mixed, notMixer>>

\* FlushFunc of the source after cancellation, between two pulls
SourceFlushCancelled ==
    /\ cancelled
    /\ src.pc = "idle"
    /\ output' = [output EXCEPT !.freed = TRUE]
    /\ src' = [src EXCEPT !.pc = "flushed"]
    /\ UNCHANGED <<cancelled, initialized, sampleRate, channels, bind, inputs, input, gens, prod, sent, emitted, mixed, notMixer>>

\* the generators of the runs that are cancelled: the first producer sends
\* two frames that differ, the others one
CancelGens == {[value |-> ValueB, step |-> ValueStep, limit |-> n] : n \in {1, 2}}
CancelLimit(id) == IF id = 1 THEN 2 ELSE 1

\* a run of the mixer that the framework may cancel at any point
MixerCancelNext ==
    \/ \E g \in CancelGens :
          /\ g.limit = CancelLimit(Cardinality(Bound) + 1)
          /\ MixerSink(TestSampleRate, TestChannels, g)
    \/ MixerSource
    \/ \E i \in InputIds, n \in 1..BufferSize : SinkCall(i, n)
    \/ \E i \in InputIds : SinkWait(i)
    \/ \E i \in InputIds : SinkCopy(i)
    \/ \E i \in InputIds : SinkNotify(i)
    \/ \E i \in InputIds : SinkFlush(i)
    \/ SourceCall
    \/ SourceWaitOk
    \/ SourceWaitClosed
    \/ SourceAdd
    \/ SourceNotify
    \/ SourceReturn
    \/ SourceFlush
    \/ Cancel
    \/ \E i \in InputIds : SinkWaitCancelled(i)
    \/ \E i \in InputIds : SinkNotifyCancelled(i)
    \/ \E i \in InputIds : SinkFlushCancelled(i)
    \/ SourceWaitCancelled
    \/ SourceNotifyCancelled
    \/ SourceFlushCancelled

\* the allocators alone, called with any of the properties
MixerBindNext ==
    \/ \E sr \in SampleRates, ch \in ChannelCounts, g \in Gens : MixerSink(sr, ch, g)
    \/ MixerSource

\* ------------------------------------------------------------------ Track
\* Capacity of the sample buffers of TestTrack; sample b holds the values
\* 10 * b + 0 .. 10 * b + 9.
SampleCapacity == 10

\* A signal cut from a sample: the buffer, where it starts in it, its length.
SampleAt(d, j) == SampleCapacity * d.buf + d.off + j

\* signal.Slice(d, a, b) reslices the buffer: the bounds are relative to the
\* start of d and may reach up to the capacity of the buffer behind it.
SliceOk(d, a, b) == 0 <= a /\ a <= b /\ d.off + b <= SampleCapacity
Slice(d, a, b) == [buf |-> d.buf, off |-> d.off + a, len |-> b - a]

\* the clips of TestTrack (sample1.Slice(3, 4), sample1.Slice(3, 6),
\* sample2.Slice(5, 7), sample2.Slice(5, 8)) and an empty one
TestClips == {[buf |-> 1, off |-> 3, len |-> 0],
              [buf |-> 1, off |-> 3, len |-> 1],
              [buf |-> 1, off |-> 3, len |-> 3],
              [buf |-> 2, off |-> 5, len |-> 2],
              [buf |-> 2, off |-> 5, len |-> 3]}
\* positions TestTrack puts clips at
TestPositions == {1, 2, 4}
\* the windows a source is asked for: (0, 0) reads to the end of the track
TestWindows == {<<0, 0>>, <<3, 0>>, <<0, 2>>, <<8, 10>>}

\* cap is the bufferSize the source was allocated with; before holds the
\* samples of the read of the same window done before this one
NoReader == [pc |-> "none", current |-> 0, pos |-> 0, start |-> 0, end |-> 0, asked |-> 0,
             cap |-> 0, before |-> <<>>]

TrackInit ==
    /\ links = <<>>
    /\ head = 0
    /\ tail = 0
    /\ terr = "none"
    /\ added = <<>>
    /\ rd = NoReader
    /\ played = <<>>
    /\ frames = <<>>

\* link.End()
End(l) == l.at + l.data.len

\* link.nextAfter(index): the first link from l on that ends after index;
\* -1 when the walk along next never ends.
RECURSIVE NextAfterFrom(_, _, _, _)
NextAfterFrom(ls, l, index, fuel) ==
    IF l = 0 THEN 0
    ELSE IF fuel = 0 THEN -1
    ELSE IF End(ls[l]) > index THEN l
    ELSE NextAfterFrom(ls, ls[l].next, index, fuel - 1)

NextAfter(ls, l, index) == NextAfterFrom(ls, l, index, Len(ls))

\* alignNextLink, "shorten next": the next link loses its first overlap
\* samples and starts that much later
ShortenNextBad(n, overlap) == [n EXCEPT !.data = Slice(n.data, overlap, n.data.len)]
ShortenNext(n, overlap) ==
    [n EXCEPT !.data = Slice(n.data, overlap, n.data.len), !.at = n.at + overlap]

\* Track.alignNextLink: the link after l is cut on its left by the overlap,
\* or unlinked when it is covered completely, and the next one is aligned.
RECURSIVE AlignNextLink(_, _, _)
AlignNextLink(t, l, fuel) ==
    LET next == t.links[l].next IN
    IF t.err # "none" \/ next = 0 THEN t
    ELSE LET overlap == End(t.links[l]) - t.links[next].at
             n == t.links[next]
         IN IF overlap <= 0 THEN t
            ELSE IF n.data.len > overlap
            THEN [t EXCEPT !.links[next] = ShortenNext(n, overlap)]
            ELSE IF fuel = 0 THEN [t EXCEPT !.err = "hang"]
            ELSE LET ls1 == [t.links EXCEPT ![l].next = n.next]
                     ls2 == IF n.next # 0 THEN [ls1 EXCEPT ![n.next].prev = l] ELSE ls1
                 IN AlignNextLink([t EXCEPT !.links = ls2,
                                            !.tail = IF n.next # 0 THEN t.tail ELSE l],
                                  l, fuel - 1)

\* the tail of the previous link that alignPrevLink inserts again
SplitTail(d, prevLen, len) == Slice(d, prevLen - len, prevLen)

\* Track.AddClip with Track.resolveOverlaps, and Track.alignPrevLink, which
\* calls AddClip again for the split tail of the previous link.
RECURSIVE AddClipTo(_, _, _, _)
AlignPrevLink(t, l, depth) ==
    LET prev == t.links[l].prev IN
    IF t.err # "none" \/ prev = 0 THEN t
    ELSE LET overlap == End(t.links[prev]) - t.links[l].at
             prevLen == t.links[prev].data.len
             len == t.links[l].data.len
         IN IF overlap <= 0 THEN t
            ELSE IF ~SliceOk(t.links[prev].data, 0, prevLen - overlap)
            THEN [t EXCEPT !.err = "panic"]
            ELSE LET t1 == [t EXCEPT !.links[prev].data = Slice(@, 0, prevLen - overlap)]
                 IN IF overlap > len
                    THEN IF ~SliceOk(t1.links[prev].data, prevLen - len, prevLen)
                         THEN [t1 EXCEPT !.err = "panic"]
                         ELSE AddClipTo(t1, t.links[l].at + len,
                                        SplitTail(t1.links[prev].data, prevLen, len),
                                        depth - 1)
                    ELSE t1

AddClipTo(t, at, data, depth) ==
    IF t.err # "none" THEN t
    ELSE IF depth = 0 THEN [t EXCEPT !.err = "hang"]
    ELSE
    LET l == Len(t.links) + 1
        ls0 == Append(t.links, [at |-> at, data |-> data, next |-> 0, prev |-> 0])
    IN  IF t.head = 0
        THEN [t EXCEPT !.links = ls0, !.head = l, !.tail = l]
        ELSE
        LET found == NextAfter(t.links, t.head, at)
            before == found > 0 /\ ls0[found].at > at
            \* connect new link with next link
            prev1 == IF found = 0 THEN 0 ELSE IF before THEN ls0[found].prev ELSE found
            next1 == IF found = 0 THEN 0 ELSE IF before THEN found ELSE ls0[found].next
            ls1 == IF before THEN [ls0 EXCEPT ![found].prev = l] ELSE ls0
            \* no next link: the new link is the tail
            prev2 == IF next1 = 0 THEN t.tail ELSE prev1
            tail2 == IF next1 = 0 THEN l ELSE t.tail
            \* connect new link with previous link
            ls2 == IF prev2 # 0 THEN [ls1 EXCEPT ![prev2].next = l] ELSE ls1
            head2 == IF prev2 # 0 THEN t.head ELSE l
            ls3 == [ls2 EXCEPT ![l].next = next1, ![l].prev = prev2]
            t3 == [t EXCEPT !.links = ls3, !.head = head2, !.tail = tail2]
        IN  IF found = -1 THEN [t EXCEPT !.err = "hang"]
            ELSE AlignPrevLink(AlignNextLink(t3, l, Len(ls3)), l, depth)

\* the split tails one AddClip call is followed through
MaxDepth == 3

TrackOf == [links |-> links, head |-> head, tail |-> tail, err |-> terr]

\* Track.AddClip(at, data)
AddClip(at, data) ==
    /\ rd.pc = "none"
    /\ terr = "none"
    /\ Len(added) < MaxClips
    /\ LET t == AddClipTo(TrackOf, at, data, MaxDepth)
       IN /\ links' = t.links
          /\ head' = t.head
          /\ tail' = t.tail
          /\ terr' = t.err
    /\ added' = Append(added, [at |-> at, data |-> data])
    /\ UNCHANGED <<rd, played, frames, notTrack>>

\* Track.endIndex()
EndIndex == IF tail = 0 THEN -1 ELSE End(links[tail])

\* Track.Source(start, end): end = 0 reads to the end of the last link.
SourceOf(start, end, cap, before) ==
    [pc |-> "open", current |-> NextAfter(links, head, start), pos |-> start,
     start |-> start, end |-> IF end = 0 THEN EndIndex ELSE end, asked |-> end,
     cap |-> cap, before |-> before]

TrackSource(start, end) ==
    /\ rd.pc = "none"
    /\ terr = "none"
    /\ rd' = SourceOf(start, end, BufferSize, <<>>)
    /\ UNCHANGED <<links, head, tail, terr, added, played, frames, notTrack>>

\* Track.Source(start, end) run by a line with bufferSize cap
TrackSourceWith(start, end, cap) ==
    /\ rd.pc = "none"
    /\ terr = "none"
    /\ cap = 1
    /\ rd' = SourceOf(start, end, cap, <<>>)
    /\ UNCHANGED <<links, head, tail, terr, added, played, frames, notTrack>>

\* the same Track.Source(start, end) run again by a line with the next
\* bufferSize, after the read before it came to its end
TrackSourceAgain(cap) ==
    /\ rd.pc = "eof"
    /\ terr = "none"
    /\ cap = rd.cap + 1
    /\ rd' = SourceOf(rd.start, rd.asked, cap, played)
    /\ played' = <<>>
    /\ frames' = <<>>
    /\ UNCHANGED <<links, head, tail, terr, added, notTrack>>

\* trackSource, sliceStart: 0 for a link that starts within the frame, and
\* the samples already behind pos for a link that started before it
SliceStartBad(offset, skip) == 0
SliceStart(offset, skip) == IF skip THEN 0 ELSE 0 - offset

\* trackSource, sliceEnd: the end of the link when it ends within the frame,
\* otherwise as much as the frame still takes
SliceEndBad(bufferEnd, cur, sliceStart, room) == sliceStart + room
SliceEnd(bufferEnd, cur, sliceStart, room) ==
    IF bufferEnd > End(cur) THEN cur.data.len ELSE sliceStart + room

\* trackSource, "if link starts within buffer"
StartsWithinBad(offset, cap) == FALSE
StartsWithin(offset, cap) == offset < cap /\ offset > 0

\* trackSource, pos += n: the position after a copy of n samples
AdvancedBad(pos, n) == pos
Advanced(pos, n) == pos + n

\* the loop of the source function of trackSource over one frame out of
\* capacity cap; p holds current, pos, read, out and the value returned
RECURSIVE FillFrame(_, _, _, _)
FillFrame(p, bufferEnd, cap, fuel) ==
    IF p.pos >= bufferEnd \/ p.err # "none" THEN p
    ELSE IF fuel = 0 THEN [p EXCEPT !.err = "hang"]
    ELSE IF p.current = 0 THEN p
    ELSE IF p.current = -1 THEN [p EXCEPT !.err = "hang"]
    ELSE
    LET cur == links[p.current] IN
    IF cur.at >= bufferEnd
    THEN [p EXCEPT !.pos = bufferEnd, !.read = cap]
    ELSE
    LET offset == cur.at - p.pos
        skip == StartsWithin(offset, cap)
        read1 == IF skip THEN p.read + offset ELSE p.read
        pos1 == IF skip THEN p.pos + offset ELSE p.pos
        sliceStart == SliceStart(offset, skip)
        sliceEnd == SliceEnd(bufferEnd, cur, sliceStart, cap - read1)
    IN  IF ~SliceOk(cur.data, sliceStart, sliceEnd) \/ read1 > cap
        THEN [p EXCEPT !.err = "panic"]
        ELSE
        LET n == Min(sliceEnd - sliceStart, cap - read1)
            out1 == [j \in 1..cap |->
                        IF j > read1 /\ j <= read1 + n
                        THEN SampleAt(cur.data, sliceStart + (j - read1 - 1))
                        ELSE p.out[j]]
            pos2 == Advanced(pos1, n)
        IN FillFrame([p EXCEPT !.out = out1, !.read = read1 + n, !.pos = pos2,
                               !.current = IF pos2 >= End(cur)
                                           THEN NextAfter(links, p.current, pos2)
                                           ELSE p.current],
                     bufferEnd, cap, fuel - 1)

\* one call of the source function with a zeroed frame of bufferSize
TrackPull ==
    /\ rd.pc = "open"
    /\ IF rd.current = 0
       THEN /\ rd' = [rd EXCEPT !.pc = "eof"]
            /\ UNCHANGED <<played, frames, terr>>
       ELSE LET p == FillFrame([current |-> rd.current, pos |-> rd.pos, read |-> 0,
                                out |-> ZeroFrame(rd.cap), err |-> "none"],
                               rd.pos + rd.cap, rd.cap,
                               rd.cap + Len(links) + 1)
            IN /\ rd' = [rd EXCEPT !.current = p.current, !.pos = p.pos,
                                   !.pc = IF p.err = "none" THEN "open" ELSE "failed"]
               /\ terr' = p.err
               /\ played' = played \o SubSeq(p.out, 1, p.read)
               /\ frames' = Append(frames, p.read)
    /\ UNCHANGED <<links, head, tail, added, notTrack>>

TrackNext ==
    \/ \E at \in TestPositions, data \in TestClips : AddClip(at, data)
    \/ \E w \in TestWindows : TrackSource(w[1], w[2])
    \/ TrackPull

\* --------------------------------------------------------------- Repeater
SourceIds == 1..MaxSources
\* the sink takes one buffer per frame; buffers that are never freed are
\* never reused
BufIds == 1..MaxFrames

\* make(chan *message, 1)
MailboxCap == 1

NoMessage == [buffer |-> 0, sources |-> 0]

RepeaterInit ==
    /\ sources = <<>>
    /\ mailbox = [s \in SourceIds |-> [queue |-> <<>>, closed |-> FALSE]]
    /\ rsink = [pc |-> "idle", i |-> 0, out |-> 0]
    /\ rsrc = [s \in SourceIds |-> [pc |-> "none", msg |-> NoMessage, regAt |-> 0]]
    /\ pool = [b \in BufIds |-> [state |-> "new", data |-> <<>>]]
    /\ dispatched = <<>>
    /\ received = [s \in SourceIds |-> <<>>]
    /\ freeLog = {}
    /\ doubleFree = FALSE
    /\ rcancelled = FALSE
    /\ rpanic = "none"

Registered == {s \in SourceIds : rsrc[s].pc # "none"}

\* r.sources = append(r.sources, source)
AddMailboxBad(srcs, s) == <<s>>
AddMailbox(srcs, s) == Append(srcs, s)

\* Repeater.Source(): under the mutex, a new mailbox is appended.
RepeaterSource ==
    /\ rsink.pc = "idle"
    /\ Cardinality(Registered) < MaxSources
    /\ LET s == Cardinality(Registered) + 1
       IN /\ sources' = AddMailbox(sources, s)
          /\ rsrc' = [rsrc EXCEPT ![s] = [pc |-> "idle", msg |-> NoMessage,
                                         regAt |-> Len(dispatched)]]
    /\ UNCHANGED <<mailbox, rsink, pool, dispatched, received, freeLog, doubleFree, rcancelled, rpanic, notRepeater>>

\* the k-th frame of the repeated line, of n samples per channel
LineFrame(k, n) == [j \in 1..(n * TestChannels) |-> 10 * k + j]

\* p.Float64(): a buffer that was freed before, or a new one
Available == {b \in BufIds : pool[b].state = "free"}
             \cup {b \in BufIds : pool[b].state = "new"
                                  /\ \A c \in BufIds : pool[c].state = "new" => b <= c}

\* SinkFunc: the mutex is taken, out is drawn from the pool and the frame is
\* copied into it.  Full frames, and a last frame that may be shorter.
SinkCalled(n) ==
    /\ Len(dispatched) < MaxFrames
    /\ \A k \in 1..Len(dispatched) : Len(dispatched[k]) = BufferSize * TestChannels
    /\ \E b \in Available :
          LET in == LineFrame(Len(dispatched) + 1, n)
              old == IF pool[b].state = "new" THEN PoolFloat64(TestChannels) ELSE pool[b].data
          IN /\ pool' = [pool EXCEPT ![b] = [state |-> "used", data |-> CopyInto(in, old)]]
             /\ dispatched' = Append(dispatched, in)
             /\ rsink' = [pc |-> "send", i |-> 1, out |-> b]
    /\ UNCHANGED <<sources, mailbox, rsrc, received, freeLog, doubleFree, rcancelled, rpanic, notRepeater>>

RepeaterSinkCall(n) ==
    /\ rsink.pc = "idle"
    /\ SinkCalled(n)

\* SinkFunc is called once more after FlushFunc
RepeaterSinkCallAfterFlush(n) ==
    /\ rsink.pc = "flushed"
    /\ SinkCalled(n)

\* the mailbox the i-th iteration of the delivery loop sends to
TargetBad(i) == sources[1]
Target(i) == sources[i]

\* &message{sources: int32(len(r.sources)), buffer: out}
MessageOfBad(out, srcs) == [buffer |-> out, sources |-> 1]
MessageOf(out, srcs) == [buffer |-> out, sources |-> Len(srcs)]

\* a send on the channel blocks while it holds MailboxCap messages
MailboxFullBad(mb) == FALSE
MailboxFull(mb) == Len(mb.queue) >= MailboxCap

\* source <- &message{sources: len(r.sources), buffer: out}: a new message
\* for each mailbox; the send blocks while the mailbox is full.
RepeaterSinkSend ==
    /\ rsink.pc = "send"
    /\ rsink.i <= Len(sources)
    /\ LET s == Target(rsink.i)
       IN /\ ~MailboxFull(mailbox[s])
          /\ mailbox' = [mailbox EXCEPT ![s].queue =
                            Append(@, MessageOf(rsink.out, sources))]
          /\ rpanic' = IF mailbox[s].closed THEN "send on closed channel" ELSE rpanic
    /\ rsink' = [rsink EXCEPT !.i = @ + 1]
    /\ UNCHANGED <<sources, rsrc, pool, dispatched, received, freeLog, doubleFree, rcancelled, notRepeater>>

\* for _, source := range r.sources: the loop is over after the last mailbox
DeliveredBad(i, n) == i > n /\ n > 0
Delivered(i, n) == i > n

\* the delivery loop is over, SinkFunc returns and the mutex is released
RepeaterSinkReturn ==
    /\ rsink.pc = "send"
    /\ Delivered(rsink.i, Len(sources))
    /\ rsink' = [pc |-> "idle", i |-> 0, out |-> 0]
    /\ UNCHANGED <<sources, mailbox, rsrc, pool, dispatched, received, freeLog, doubleFree, rcancelled, rpanic, notRepeater>>

\* r.sources = nil
AfterFlushBad(srcs) == srcs
AfterFlush(srcs) == <<>>

\* FlushFunc of the sink: every mailbox is closed, r.sources = nil; the
\* close of a closed channel panics
Flushed ==
    /\ mailbox' = [s \in SourceIds |->
                     IF \E i \in 1..Len(sources) : sources[i] = s
                     THEN [mailbox[s] EXCEPT !.closed = TRUE] ELSE mailbox[s]]
    /\ rpanic' = IF \E i \in 1..Len(sources) : mailbox[sources[i]].closed
                 THEN "close of closed channel" ELSE rpanic
    /\ sources' = AfterFlush(sources)
    /\ rsink' = [pc |-> "flushed", i |-> 0, out |-> 0]
    /\ UNCHANGED <<rsrc, pool, dispatched, received, freeLog, doubleFree, rcancelled, notRepeater>>

RepeaterSinkFlush ==
    /\ rsink.pc = "idle"
    /\ Flushed

\* FlushFunc is called once more
RepeaterSinkFlushAgain ==
    /\ rsink.pc = "flushed"
    /\ Flushed

\* messagePtr, ok = <-source, a message is queued
RepeaterSourceRecv(s) ==
    /\ rsrc[s].pc = "idle"
    /\ mailbox[s].queue # <<>>
    /\ rsrc' = [rsrc EXCEPT ![s].pc = "copy", ![s].msg = Head(mailbox[s].queue)]
    /\ mailbox' = [mailbox EXCEPT ![s].queue = Tail(@)]
    /\ UNCHANGED <<sources, rsink, pool, dispatched, received, freeLog, doubleFree, rcancelled, rpanic, notRepeater>>

\* a receive reports the closed channel once the queued messages are taken
RecvClosedBad(mb) == mb.closed
RecvClosed(mb) == mb.queue = <<>> /\ mb.closed

\* <-source on the closed, drained mailbox: io.EOF
RepeaterSourceEOF(s) ==
    /\ rsrc[s].pc = "idle"
    /\ RecvClosed(mailbox[s])
    /\ rsrc' = [rsrc EXCEPT ![s].pc = "eof"]
    /\ UNCHANGED <<sources, mailbox, rsink, pool, dispatched, received, freeLog, doubleFree, rcancelled, rpanic, notRepeater>>

\* read := FloatingAsFloating(messagePtr.buffer, b); b is returned cut to read
RepeaterSourceCopy(s) ==
    /\ rsrc[s].pc = "copy"
    /\ LET from == pool[rsrc[s].msg.buffer].data
           b == PoolFloat64(TestChannels)
       IN received' = [received EXCEPT ![s] =
              Append(@, SliceTo(CopyInto(from, b), Copied(from, b, TestChannels), TestChannels))]
    /\ rsrc' = [rsrc EXCEPT ![s].pc = "release"]
    /\ UNCHANGED <<sources, mailbox, rsink, pool, dispatched, freeLog, doubleFree, rcancelled, rpanic, notRepeater>>

\* atomic.AddInt32(&messagePtr.sources, -1) == 0
ShouldFreeBad(n) == n >= 0
ShouldFree(n) == n = 0

\* the counter of the message is decremented; at zero the buffer is freed
RepeaterSourceRelease(s) ==
    /\ rsrc[s].pc = "release"
    /\ LET n == rsrc[s].msg.sources - 1
           b == rsrc[s].msg.buffer
       IN IF ShouldFree(n)
          THEN /\ pool' = [pool EXCEPT ![b].state = "free"]
               /\ freeLog' = freeLog \cup {n}
               /\ doubleFree' = (doubleFree \/ pool[b].state = "free")
          ELSE UNCHANGED <<pool, freeLog, doubleFree>>
    /\ rsrc' = [rsrc EXCEPT ![s].pc = "idle", ![s].msg = NoMessage]
    /\ UNCHANGED <<sources, mailbox, rsink, dispatched, received, rcancelled, rpanic, notRepeater>>

RepeaterNext ==
    \/ RepeaterSource
    \/ \E n \in 1..BufferSize : RepeaterSinkCall(n)
    \/ RepeaterSinkSend
    \/ RepeaterSinkReturn
    \/ RepeaterSinkFlush
    \/ \E s \in SourceIds : RepeaterSourceRecv(s)
    \/ \E s \in SourceIds : RepeaterSourceEOF(s)
    \/ \E s \in SourceIds : RepeaterSourceCopy(s)
    \/ \E s \in SourceIds : RepeaterSourceRelease(s)

\* the framework cancels the pipeline.  Sink() and Source() of the Repeater
\* set no StartFunc and none of their functions reads the context, so no
\* action of the repeater depends on it.
RepeaterCancel ==
    /\ ~rcancelled
    /\ rcancelled' = TRUE
    /\ UNCHANGED <<sources, mailbox, rsink, rsrc, pool, dispatched, received, freeLog, doubleFree, rpanic, notRepeater>>

\* a sink that is flushed more than once and called after a flush
RepeaterReflushNext ==
    \/ RepeaterNext
    \/ RepeaterSinkFlushAgain
    \/ \E n \in 1..BufferSize : RepeaterSinkCallAfterFlush(n)

RepeaterCancelNext ==
    \/ RepeaterNext
    \/ RepeaterCancel

\* ----------------------------------------------------------- audio.Source
\* the buffer of TestSource holds the samples 0 .. 9
SourceCapacity == 10
\* where the signals of TestSource start in it (buf, buf.Slice(1, 3),
\* buf.Slice(5, 10))
TestStarts == {0, 1, 5}

FloatInit ==
    /\ fdata = <<>>
    /\ fpos = 0
    /\ fcap = 0
    /\ fpc = "none"
    /\ fout = <<>>
    /\ freads = <<>>

\* buf.Slice(start, start + len) of n channels, interleaved
BufSlice(start, len, ch) == [j \in 1..(len * ch) |-> start + ((j - 1) \div ch)]

\* audio.Source(sampleRate, buf.Slice(start, start + len)), allocated for
\* frames of c samples per channel: pos := 0
FloatingSource(start, len, c) ==
    /\ fpc = "none"
    /\ start + len <= SourceCapacity
    /\ fdata' = BufSlice(start, len, TestChannels)
    /\ fpos' = 0
    /\ fcap' = c
    /\ fpc' = "open"
    /\ UNCHANGED <<fout, freads, notFloat>>

\* data.Length()
Length(d, ch) == Len(d) \div ch

\* pos == data.Length()
SourceDoneBad(p, len) == p + 1 >= len
SourceDone(p, len) == p = len

\* end := pos + out.Length(), cut to data.Length()
SourceEnd(p, n, len) == IF p + n > len THEN len ELSE p + n

\* data.Slice(pos, end)
DataSlice(d, from, to, ch) == SubSeq(d, from * ch + 1, to * ch)

\* one call of the SourceFunc of floatingSource with a frame out of fcap
\* samples per channel
FloatingSourcePull ==
    /\ fpc = "open"
    /\ IF SourceDone(fpos, Length(fdata, TestChannels))
       THEN /\ fpc' = "eof"
            /\ freads' = Append(freads, 0)
            /\ UNCHANGED <<fpos, fout>>
       ELSE LET out == [j \in 1..(fcap * TestChannels) |-> 0]
                end == SourceEnd(fpos, Length(out, TestChannels), Length(fdata, TestChannels))
                part == DataSlice(fdata, fpos, end, TestChannels)
                read == Copied(part, out, TestChannels)
            IN /\ fout' = Append(fout, SliceTo(CopyInto(part, out), read, TestChannels))
               /\ freads' = Append(freads, read)
               /\ fpos' = fpos + read
               /\ UNCHANGED fpc
    /\ UNCHANGED <<fdata, fcap, notFloat>>

FloatNext ==
    \/ \E start \in TestStarts, len \in 0..MaxLength, c \in 1..MaxFrameCap :
          FloatingSource(start, len, c)
    \/ FloatingSourcePull

\* -------------------------------------------------------------- Semaphore
CallerIds == 1..MaxCallers

SemaphoreInit ==
    /\ limit = [cap |-> 0, len |-> 0]
    /\ caller = [c \in CallerIds |-> [pc |-> "idle", done |-> FALSE, took |-> "none"]]
    /\ calls = [made |-> 0, acquired |-> 0, released |-> 0]

\* New: the values the channel holds when it is returned
InitialValuesBad(l) == l
InitialValues(l) == 0

\* semaphore.New(l): limit := make(chan struct{}, l)
New(l) ==
    /\ limit.cap = 0
    /\ limit' = [cap |-> l, len |-> InitialValues(l)]
    /\ UNCHANGED <<caller, calls, notSemaphore>>

\* Acquire(ctx) is called with a context that is done already or not
Acquire(c, done) ==
    /\ limit.cap > 0
    /\ caller[c].pc = "idle"
    /\ calls.made < MaxCalls
    /\ caller' = [caller EXCEPT ![c] = [pc |-> "acquire", done |-> done, took |-> "none"]]
    /\ calls' = [calls EXCEPT !.made = @ + 1]
    /\ UNCHANGED <<limit, notSemaphore>>

\* the context of a waiting Acquire is cancelled or times out
ContextDone(c) ==
    /\ caller[c].pc = "acquire"
    /\ ~caller[c].done
    /\ caller' = [caller EXCEPT ![c].done = TRUE]
    /\ UNCHANGED <<limit, calls, notSemaphore>>

\* Acquire, case <-s.limit: a value is taken from the channel
AcquireLimit(c) ==
    /\ caller[c].pc = "acquire"
    /\ limit.len > 0
    /\ limit' = [limit EXCEPT !.len = @ - 1]
    /\ caller' = [caller EXCEPT ![c].pc = "idle", ![c].took = "limit"]
    /\ calls' = [calls EXCEPT !.acquired = @ + 1]
    /\ UNCHANGED notSemaphore

\* Acquire, case <-ctx.Done()
AcquireDone(c) ==
    /\ caller[c].pc = "acquire"
    /\ caller[c].done
    /\ caller' = [caller EXCEPT ![c].pc = "idle", ![c].took = "done"]
    /\ UNCHANGED <<limit, calls, notSemaphore>>

\* Release() is called
Release(c) ==
    /\ limit.cap > 0
    /\ caller[c].pc = "idle"
    /\ calls.made < MaxCalls
    /\ caller' = [caller EXCEPT ![c].pc = "release"]
    /\ calls' = [calls EXCEPT !.made = @ + 1]
    /\ UNCHANGED <<limit, notSemaphore>>

\* Release, s.limit <- struct{}{}: blocks while the channel is full
ReleaseSend(c) ==
    /\ caller[c].pc = "release"
    /\ limit.len < limit.cap
    /\ limit' = [limit EXCEPT !.len = @ + 1]
    /\ caller' = [caller EXCEPT ![c].pc = "idle"]
    /\ calls' = [calls EXCEPT !.released = @ + 1]
    /\ UNCHANGED notSemaphore

SemaphoreNext ==
    \/ \E l \in 1..MaxSemaphore : New(l)
    \/ \E c \in CallerIds, done \in BOOLEAN : Acquire(c, done)
    \/ \E c \in CallerIds : ContextDone(c)
    \/ \E c \in CallerIds : AcquireLimit(c)
    \/ \E c \in CallerIds : AcquireDone(c)
    \/ \E c \in CallerIds : Release(c)
    \/ \E c \in CallerIds : ReleaseSend(c)

\* ---- Repeater properties
\* r carries the samples of frame f
IsCopy(r, f) == Len(r) >= Len(f) /\ SubSeq(r, 1, Len(f)) = f

\* the source has reached EOF or its mailbox can never be filled again
AtEOF(s) == rsrc[s].pc = "eof"

\* C3: what a source has dequeued is, in order and without gap or repeat,
\* the frames the sink was called with since the source registered; at EOF
\* it has dequeued every one of them.
C3_RepeaterEveryFrameInOrder ==
    \A s \in Registered :
        /\ Len(received[s]) <= Len(dispatched) - rsrc[s].regAt
        /\ \A k \in 1..Len(received[s]) :
              IsCopy(received[s][k], dispatched[rsrc[s].regAt + k])
        /\ AtEOF(s) => Len(received[s]) = Len(dispatched) - rsrc[s].regAt

\* two sources registered before the first frame have both dequeued all the
\* frames and reached EOF
C3_Witness ==
    /\ Cardinality(Registered) = 2
    /\ Len(dispatched) = MaxFrames
    /\ \A s \in Registered :
          rsrc[s].regAt = 0 /\ AtEOF(s) /\ Len(received[s]) = MaxFrames

\* pulls a source has completed, the release step included
Completed(s) == Len(received[s]) - (IF rsrc[s].pc = "release" THEN 1 ELSE 0)

\* every source frame k was enqueued for has completed its pull of it
FullyConsumed(k) ==
    \A s \in Registered :
        rsrc[s].regAt < k => rsrc[s].regAt + Completed(s) >= k

InFlight == {b \in BufIds : pool[b].state = "used"}

\* C4: with at least one source registered from the start, the buffers
\* acquired and not released are as many as the frames dispatched and not
\* consumed by all their sources, and none is left once all sources are at
\* EOF.
C4_RepeaterNoLeak ==
    (\E s \in Registered : rsrc[s].regAt = 0) =>
        /\ ~doubleFree
        /\ rsink.pc # "send" =>
              Cardinality(InFlight)
                = Cardinality({k \in 1..Len(dispatched) : ~FullyConsumed(k)})
        /\ (rsink.pc = "flushed" /\ \A s \in Registered : AtEOF(s)) => InFlight = {}

\* a source that still has to copy the buffer: the message is queued or
\* dequeued and not yet copied
PendingReader(b) ==
    \/ \E s \in SourceIds : \E i \in 1..Len(mailbox[s].queue) : mailbox[s].queue[i].buffer = b
    \/ \E s \in SourceIds : rsrc[s].pc = "copy" /\ rsrc[s].msg.buffer = b

\* C5: a buffer in the pool has no source that still has to copy it, a
\* buffer is freed only with its message counter at zero, and never twice.
C5_RepeaterSafeRelease ==
    /\ ~doubleFree
    /\ freeLog \subseteq {0}
    /\ \A b \in BufIds : pool[b].state = "free" => ~PendingReader(b)

\* a single source has freed a buffer and the sink has drawn it again
C5_Witness ==
    /\ freeLog = {0}
    /\ Len(dispatched) >= 2
    /\ \E b \in BufIds : pool[b].state = "free"

\* C18: with a single source, registered before the first frame, the source
\* has returned at EOF the frames the sink was called with: as many, each
\* with the same samples, in the same order.
C18_RepeaterIdentity ==
    \A s \in SourceIds :
        (Cardinality(Registered) = 1 /\ rsrc[s].regAt = 0 /\ AtEOF(s)) =>
            received[s] = dispatched

\* C19: a source is at EOF only with its mailbox closed and empty and every
\* frame enqueued for it dequeued, and after the flush every registered
\* source that keeps pulling gets to EOF.
C19_RepeaterDrainThenEOF ==
    /\ [](\A s \in SourceIds :
             AtEOF(s) => /\ mailbox[s].closed /\ mailbox[s].queue = <<>>
                         /\ Len(received[s]) = Len(dispatched) - rsrc[s].regAt)
    /\ rsink.pc = "flushed" ~> \A s \in Registered : AtEOF(s)

\* one source is at EOF with all frames while the closed mailbox of another
\* still holds a frame
C19_Witness ==
    \E s \in SourceIds, t \in SourceIds :
        /\ AtEOF(s) /\ Len(received[s]) = MaxFrames
        /\ rsrc[t].pc = "idle" /\ mailbox[t].closed /\ mailbox[t].queue # <<>>

\* C20: without a registered source no sink call waits: the delivery loop
\* is over at once, nothing is enqueued, and the flush can be called.
C20_RepeaterNoSource ==
    Registered = {} =>
        /\ rsink.pc = "send" => ENABLED RepeaterSinkReturn
        /\ rsink.pc = "idle" => ENABLED RepeaterSinkFlush
        /\ \A s \in SourceIds : mailbox[s].queue = <<>>

\* all frames went through a repeater without sources, and it is flushed
C20_Witness ==
    /\ Registered = {}
    /\ rsink.pc = "flushed"
    /\ Len(dispatched) = MaxFrames

\* ---- Track properties
\* the timeline: the links from head along next, in order
RECURSIVE ChainFrom(_, _)
ChainFrom(l, fuel) ==
    IF l = 0 \/ fuel = 0 THEN <<>> ELSE <<l>> \o ChainFrom(links[l].next, fuel - 1)

Timeline == ChainFrom(head, Len(links))

FullRead == rd.pc = "eof" /\ rd.start = 0 /\ rd.asked = 0

\* every AddClip call so far had a clip with samples
ClipsHaveSamples == \A c \in 1..Len(added) : added[c].data.len > 0

\* C6: adjacent links of the timeline do not overlap and are in order of
\* position: the left one ends at or before the start of the right one.
C6_TrackNoOverlap ==
    \A i \in 1..(Len(Timeline) - 1) :
        End(links[Timeline[i]]) <= links[Timeline[i + 1]].at

\* three clips were added, one of them cut or split by a later one
C6_Witness ==
    /\ Len(added) = MaxClips
    /\ Len(Timeline) >= 3
    /\ \E i \in 1..Len(Timeline) : links[Timeline[i]].data.off \notin {3, 5}

\* C7: after AddClip calls, all with clips that have samples, no link of the
\* timeline has length 0 and the positions of the links increase strictly.
C7_TrackNoEmptyLink ==
    ClipsHaveSamples =>
        /\ \A i \in 1..Len(Timeline) : links[Timeline[i]].data.len > 0
        /\ \A i \in 1..(Len(Timeline) - 1) :
              links[Timeline[i]].at < links[Timeline[i + 1]].at

LastClip == added[Len(added)]

\* C8: after AddClip(at, seg) with n > 0 samples, a read of the track has the
\* n samples of seg at the positions at .. at + n - 1.
C8_TrackNewerWins ==
    (FullRead /\ added # <<>> /\ ClipsHaveSamples) =>
        \A j \in 0..(LastClip.data.len - 1) :
            /\ Len(played) >= LastClip.at + j + 1
            /\ played[LastClip.at + j + 1] = SampleAt(LastClip.data, j)

Covering(p) == {i \in 1..Len(Timeline) :
                   links[Timeline[i]].at <= p /\ p < End(links[Timeline[i]])}

RECURSIVE LastEnd(_)
LastEnd(i) == IF i = 0 THEN 0 ELSE Max(LastEnd(i - 1), End(links[Timeline[i]]))

\* C9: a read from 0 to the end of the last link has, at every position, the
\* sample of the link that covers the position and 0 where no link does.
C9_TrackRead ==
    FullRead =>
        /\ Len(played) = LastEnd(Len(Timeline))
        /\ \A p \in 0..(Len(played) - 1) :
              IF Covering(p) = {}
              THEN played[p + 1] = 0
              ELSE \A i \in Covering(p) :
                      played[p + 1] = SampleAt(links[Timeline[i]].data,
                                               p - links[Timeline[i]].at)

\* TestTrack, "Sequence with interval"
C9_Witness ==
    /\ FullRead
    /\ played = <<0, 0, 13, 0, 25, 26, 27>>

\* C10: a source for the window (start, end) with end > start has returned
\* end - start samples at EOF, all 0 when no link covers the window.
C10_TrackWindow ==
    (rd.pc = "eof" /\ rd.asked > rd.start) =>
        /\ Len(played) = rd.asked - rd.start
        /\ (\A p \in rd.start..(rd.asked - 1) : Covering(p) = {}) =>
              \A j \in 1..Len(played) : played[j] = 0

TrackNoFailure == terr = "none"

\* a source made by Source(start, 0) is at EOF on a track that has links
\* and ends at or after start
ReadToEnd == rd.pc = "eof" /\ rd.asked = 0 /\ tail # 0 /\ rd.start <= End(links[tail])

C12_TrackEmptyClipIgnored ==
    [][(Len(added') = Len(added) + 1 /\ added'[Len(added')].data.len = 0)
          => (links' = links /\ head' = head /\ tail' = tail)]_vars

\* the timeline of a track given by its links and its head
RECURSIVE ChainOf(_, _, _)
ChainOf(ls, l, fuel) ==
    IF l = 0 \/ fuel = 0 THEN <<>> ELSE <<l>> \o ChainOf(ls, ls[l].next, fuel - 1)

TimelineOf(ls, h) == ChainOf(ls, h, Len(ls))

CoveringOf(ls, h, p) == {i \in 1..Len(TimelineOf(ls, h)) :
                            LET l == ls[TimelineOf(ls, h)[i]]
                            IN l.at <= p /\ p < End(l)}

\* what a read finds at position p: the sample of the first link of the
\* timeline that covers p, 0 where none does
ContentOf(ls, h, p) ==
    IF CoveringOf(ls, h, p) = {} THEN 0
    ELSE LET i == CHOOSE c \in CoveringOf(ls, h, p) :
                      \A o \in CoveringOf(ls, h, p) : c <= o
             l == ls[TimelineOf(ls, h)[i]]
         IN SampleAt(l.data, p - l.at)

\* the positions clips can reach
Positions == 0..(Max(4, MaxClips) + SampleCapacity)

\* an AddClip call that returned, with a clip L that has samples, on a track
\* built from clips with samples
Inserted ==
    /\ ClipsHaveSamples
    /\ Len(added') = Len(added) + 1
    /\ added'[Len(added')].data.len > 0
    /\ terr' = "none"

\* the links of the timeline before the call that contain L: they start at
\* or before L.at and end after L.End()
Around(at, len) == {i \in 1..Len(links) :
                      /\ \E k \in 1..Len(Timeline) : Timeline[k] = i
                      /\ links[i].at <= at
                      /\ End(links[i]) > at + len}

\* C29: an AddClip call with a clip L inside a link P leaves P cut to end
\* at L.at and a link at L.End() with the samples P had from there on; and
\* every position outside [L.at, L.End()) reads after the call what it read
\* before it.
C29_TrackSplit ==
    [][Inserted =>
          LET L == added'[Len(added')]
              after == TimelineOf(links', head')
          IN /\ \A P \in Around(L.at, L.data.len) :
                   /\ links'[P].at = links[P].at
                   /\ links'[P].data = Slice(links[P].data, 0, L.at - links[P].at)
                   /\ \E k \in 1..Len(after) :
                         /\ links'[after[k]].at = L.at + L.data.len
                         /\ links'[after[k]].data =
                               Slice(links[P].data, L.at + L.data.len - links[P].at,
                                     links[P].data.len)
             /\ \A p \in Positions :
                   (p < L.at \/ p >= L.at + L.data.len) =>
                        ContentOf(links', head', p) = ContentOf(links, head, p)]_vars

\* the links of the timeline before the call that lie within L
Within(at, len) == {i \in 1..Len(links) :
                      /\ \E k \in 1..Len(Timeline) : Timeline[k] = i
                      /\ links[i].data.len > 0
                      /\ at <= links[i].at
                      /\ End(links[i]) <= at + len}

\* the links of the timeline before the call that start after L.at within L
\* and end after it
CutByNew(at, len) == {i \in 1..Len(links) :
                        /\ \E k \in 1..Len(Timeline) : Timeline[k] = i
                        /\ at < links[i].at
                        /\ links[i].at < at + len
                        /\ End(links[i]) > at + len}

\* C30: after an AddClip call with a clip L, no link that lay within
\* [L.at, L.End()) is on the timeline, and a link that began inside L and
\* ended after it starts at L.End() with the samples it had from there on.
C30_TrackAlignNext ==
    [][Inserted =>
          LET L == added'[Len(added')]
              after == TimelineOf(links', head')
          IN /\ \A i \in Within(L.at, L.data.len) :
                   \A k \in 1..Len(after) : after[k] # i
             /\ \A i \in CutByNew(L.at, L.data.len) :
                   /\ \E k \in 1..Len(after) : after[k] = i
                   /\ links'[i].at = L.at + L.data.len
                   /\ links'[i].data =
                         Slice(links[i].data, L.at + L.data.len - links[i].at,
                               links[i].data.len)]_vars

\* --------------------------------------------------------- specifications
AllInit == MixerInit /\ RepeaterInit /\ TrackInit /\ FloatInit /\ SemaphoreInit

SpecFloat == AllInit /\ [][FloatNext]_vars

SpecMixer == AllInit /\ [][MixerNext]_vars

SpecRepeater == AllInit /\ [][RepeaterNext]_vars

\* the sources keep pulling: a source function that can take its next step
\* takes it
SourcePulls(s) ==
    \/ RepeaterSourceRecv(s)
    \/ RepeaterSourceEOF(s)
    \/ RepeaterSourceCopy(s)
    \/ RepeaterSourceRelease(s)

SpecRepeaterFair ==
    SpecRepeater /\ \A s \in SourceIds : WF_vars(SourcePulls(s))

\* the sink line inside SinkFunc takes its next step
SinkRuns ==
    \/ RepeaterSinkSend
    \/ RepeaterSinkReturn

\* a source line that holds a message takes its next step
SourceRuns(s) ==
    \/ RepeaterSourceCopy(s)
    \/ RepeaterSourceRelease(s)

\* goroutines inside a callback are scheduled; whether a source is pulled
\* again is left open
SpecRepeaterCancelFair ==
    /\ AllInit /\ [][RepeaterCancelNext]_vars
    /\ WF_vars(SinkRuns)
    /\ \A s \in SourceIds : WF_vars(SourceRuns(s))

SpecRepeaterReflush == AllInit /\ [][RepeaterReflushNext]_vars

SpecTrack == AllInit /\ [][TrackNext]_vars

\* a Track read again and again with growing bufferSize
ToTheEnd == {w \in TestWindows : w[2] = 0}
\* the clips of TestTrack
WithSamples == {data \in TestClips : data.len > 0}

TrackCapNext ==
    \/ \E at \in TestPositions, data \in WithSamples : AddClip(at, data)
    \/ \E w \in ToTheEnd, cap \in 1..MaxFrameCap : TrackSourceWith(w[1], w[2], cap)
    \/ TrackPull
    \/ \E cap \in 1..MaxFrameCap : TrackSourceAgain(cap)

SpecTrackCap == AllInit /\ [][TrackCapNext]_vars

SpecSemaphore == AllInit /\ [][SemaphoreNext]_vars

\* a goroutine inside the select of Acquire takes a case that is ready
SpecSemaphoreFair ==
    /\ SpecSemaphore
    /\ \A c \in CallerIds : WF_vars(AcquireLimit(c) \/ AcquireDone(c))

SpecMixerBind == AllInit /\ [][MixerBindNext]_vars

SpecMixerCancel == AllInit /\ [][MixerCancelNext]_vars

\* a line that is inside SinkFunc takes its next step
ProducerRuns(i) ==
    \/ SinkWait(i)
    \/ SinkCopy(i)
    \/ SinkNotify(i)
    \/ SinkWaitCancelled(i)
    \/ SinkNotifyCancelled(i)

\* the line that is inside SourceFunc takes its next step
ConsumerRuns ==
    \/ SourceWaitOk
    \/ SourceWaitClosed
    \/ SourceAdd
    \/ SourceNotify
    \/ SourceReturn
    \/ SourceWaitCancelled
    \/ SourceNotifyCancelled

\* the line of producer i: it calls SinkFunc for every frame of its source
\* and then FlushFunc
ProducerLine(i) ==
    \/ \E n \in 1..BufferSize : SinkCall(i, n)
    \/ SinkWait(i)
    \/ SinkCopy(i)
    \/ SinkNotify(i)
    \/ SinkFlush(i)

\* the line of the consumer: it calls SourceFunc until EOF
ConsumerLine ==
    \/ SourceCall
    \/ SourceWaitOk
    \/ SourceWaitClosed
    \/ SourceAdd
    \/ SourceNotify
    \/ SourceReturn

\* every line of the pipeline is a goroutine that is scheduled
SpecMixerFair ==
    /\ AllInit /\ [][MixerFairNext]_vars
    /\ \A i \in InputIds : WF_vars(ProducerLine(i))
    /\ WF_vars(ConsumerLine)

\* goroutines inside a callback are scheduled; whether the framework calls
\* a callback again is left open
SpecMixerCancelFair ==
    /\ SpecMixerCancel
    /\ \A i \in InputIds : WF_vars(ProducerRuns(i))
    /\ WF_vars(ConsumerRuns)

\* ---- Mixer allocator properties
\* a call of the sink allocator: the properties it recorded or an input changed
SinkAllocated == src.pc = "unbound" /\ (bind' # bind \/ inputs' # inputs)

\* C13: the first sink allocation records its sample rate and channels; a
\* later one with another sample rate fails with ErrDifferentSampleRates, one
\* with the same rate and other channels with ErrDifferentChannels, and a
\* matching one succeeds and appends exactly one input.
C13_MixerSinkMismatch ==
    [][SinkAllocated =>
         IF ~initialized
         THEN /\ sampleRate' = bind'.sr /\ channels' = bind'.ch
              /\ bind'.err = "none"
              /\ Len(inputs') = 1
         ELSE /\ sampleRate' = sampleRate /\ channels' = channels
              /\ bind'.sr # sampleRate =>
                     bind'.err = "ErrDifferentSampleRates" /\ inputs' = inputs
              /\ (bind'.sr = sampleRate /\ bind'.ch # channels) =>
                     bind'.err = "ErrDifferentChannels" /\ inputs' = inputs
              /\ (bind'.sr = sampleRate /\ bind'.ch = channels) =>
                     /\ bind'.err = "none"
                     /\ Len(inputs') = Len(inputs) + 1
                     /\ SubSeq(inputs', 1, Len(inputs)) = inputs]_vars

\* a sink allocation was rejected for its channels after one was accepted
C13_Witness ==
    /\ bind.err = "ErrDifferentChannels"
    /\ Len(inputs) = 1

\* C14: the source allocator panics when no sink was allocated before it;
\* after a sink allocation it succeeds and exposes the recorded sample rate
\* and channels.
C14_MixerSourceAfterSink ==
    [][(src.pc = "unbound" /\ src'.pc # "unbound") =>
         IF inputs = <<>>
         THEN src'.pc = "panic" /\ src'.err = "mixer source bound before sink"
         ELSE src'.pc = "idle" /\ src'.props = <<sampleRate, channels>>]_vars

\* the source allocator was called first
C14_Witness ==
    /\ src.pc = "panic"
    /\ inputs = <<>>

\* ---- Mixer properties
\* the producers that send a k-th frame
Contrib(k) == {i \in InputIds : Len(sent[i]) >= k}

RECURSIVE SumSent(_, _, _)
SumSent(n, k, j) ==
    IF n = 0 THEN 0
    ELSE SumSent(n - 1, k, j)
         + (IF Len(sent[n]) >= k /\ j <= Len(sent[n][k]) THEN sent[n][k][j] ELSE 0)

RECURSIVE LongestSent(_, _)
LongestSent(n, k) ==
    IF n = 0 THEN 0
    ELSE Max(LongestSent(n - 1, k), IF Len(sent[n]) >= k THEN Len(sent[n][k]) ELSE 0)

MeanFrame(k) ==
    [j \in 1..LongestSent(MaxInputs, k) |->
        SumSent(MaxInputs, k, j) \div Cardinality(Contrib(k))]

\* C1: the k-th frame the mixer source returns is, sample by sample, the sum
\* of the k-th frames of the producers that send a k-th frame divided by
\* their number, and it is as long as the longest of these frames.
C1_MixerMean ==
    \A k \in 1..Len(emitted) : Contrib(k) # {} /\ emitted[k] = MeanFrame(k)

\* two producers mixed in the first frame, one left for a short third frame
C1_Witness ==
    /\ Len(emitted) >= 3
    /\ Cardinality(Contrib(1)) = 2
    /\ Cardinality(Contrib(3)) = 1
    /\ Len(emitted[3]) < BufferSize * channels

RECURSIVE MaxLimit(_)
MaxLimit(n) == IF n = 0 THEN 0 ELSE Max(MaxLimit(n - 1), IF n \in Bound THEN gens[n].limit ELSE 0)

Remaining(k) == {i \in Bound : gens[i].limit >= k}

\* C2: once the source has returned EOF every producer has sent its n_i
\* frames and flushed, the source has returned max n_i frames, no error was
\* raised, and a frame that only one producer still contributes to is that
\* producer's frame, not a mean with the flushed ones.
C2_MixerLongest ==
    src.pc \in {"eof", "flushed"} =>
        /\ src.err = "none"
        /\ \A i \in Bound : prod[i].pc = "flushed" /\ Len(sent[i]) = gens[i].limit
        /\ Len(emitted) = MaxLimit(MaxInputs)
        /\ \A k \in 1..Len(emitted) :
              /\ \A i \in Remaining(k) :
                    Remaining(k) = {i} => emitted[k] = sent[i][k]
              /\ \A j \in 1..Len(emitted[k]) :
                    emitted[k][j] * Cardinality(Remaining(k)) = SumSent(MaxInputs, k, j)

\* TestMixer, 1st run: 8 frames of 0.7 and 6 of 0.5 give 6 frames of 0.6 and
\* then 2 of 0.7
C2_Witness ==
    /\ src.pc = "eof"
    /\ Len(emitted) = MessagesA
    /\ \A k \in 1..MessagesB : emitted[k] = <<72, 72>>
    /\ \A k \in (MessagesB + 1)..MessagesA : emitted[k] = <<ValueA, ValueA>>

\* ---- Mixer ordering properties
\* the consumer has finished aggregating the inputs of pull k
Committed(k) ==
    \/ Len(emitted) >= k
    \/ Len(emitted) = k - 1 /\ src.pc = "loop" /\ src.i > Len(inputs)

\* C15, as claimed: a producer that has sent k frames starts writing its
\* staging frame again only after the consumer has finished aggregating all
\* inputs of pull k.
C15_MixerSendAfterCommit ==
    \A i \in Bound : prod[i].pc = "copy" => Committed(Len(sent[i]))

\* C15, amended: a producer that has sent k frames starts writing its
\* staging frame again only after the consumer has added its k-th frame to
\* the accumulator of pull k; pull k - 1 is then committed.
C15_MixerSendAfterAdd ==
    \A i \in Bound :
        prod[i].pc = "copy" =>
            LET k == Len(sent[i])
            IN /\ Len(mixed[i]) = k
               /\ k > 0 => mixed[i][k].pull = k
               /\ Len(emitted) >= k - 1

\* a producer writes its second frame while the consumer is in the first
\* pull, waiting for another input
C15_Witness ==
    /\ emitted = <<>>
    /\ src.pc = "loop"
    /\ src.i <= Len(inputs)
    /\ \E i \in Bound : prod[i].pc = "copy" /\ Len(sent[i]) = 1

\* C16: the frames of an input are added to the accumulator in the order
\* they were sent, the k-th in pull k and in no other, and an input is
\* removed only when every frame it sent has been added.
C16_MixerFramesInOrder ==
    \A i \in InputIds :
        /\ Len(mixed[i]) <= Len(sent[i])
        /\ \A k \in 1..Len(mixed[i]) :
              mixed[i][k].frame = sent[i][k] /\ mixed[i][k].pull = k
        /\ input[i].freed => Len(mixed[i]) = Len(sent[i])

\* an input was closed with its last frame still staged, and is removed
\* with all its frames mixed
C16_Witness ==
    \E i \in Bound, j \in Bound :
        /\ input[i].freed /\ Len(sent[i]) = MaxFrames /\ Len(mixed[i]) = MaxFrames
        /\ input[j].closed /\ input[j].read = 1

\* C17: the source returns EOF only when every producer has flushed and
\* every frame sent has been mixed, without a frame when nothing was sent;
\* every frame it returned had an input contributing to it.
C17_MixerEOF ==
    /\ src.pc \in {"eof", "flushed"} =>
          /\ \A i \in Bound :
                prod[i].pc = "flushed" /\ Len(mixed[i]) = Len(sent[i])
          /\ (\A i \in Bound : sent[i] = <<>>) => emitted = <<>>
    /\ \A k \in 1..Len(emitted) : \E i \in Bound : Len(mixed[i]) >= k

\* every producer flushed without a frame and the first pull returned EOF
C17_Witness ==
    /\ src.pc = "eof"
    /\ Cardinality(Bound) = MaxInputs
    /\ \A i \in Bound : sent[i] = <<>>
    /\ emitted = <<>>

\* ---- Mixer token properties
\* the consumer is in output.add on the staging frame of input i
ConsumerReads(i) ==
    src.pc = "add" /\ src.i <= Len(inputs) /\ inputs[src.i] = i

\* the producer of input i is in FloatingAsFloating on its staging frame
ProducerWrites(i) == prod[i].pc = "copy"

\* C26: the producer of an input and the consumer are never on its staging
\* frame at once: the producer writes it with the write token taken and no
\* read token out, the consumer reads it with the read token taken and the
\* write token not yet returned.
C26_MixerStagingExclusive ==
    \A i \in Bound :
        /\ ~(ProducerWrites(i) /\ ConsumerReads(i))
        /\ ProducerWrites(i) => (input[i].write = 0 /\ input[i].read = 0)
        /\ ConsumerReads(i) =>
              (input[i].write = 0 /\ input[i].read = 0 /\ prod[i].pc \notin {"copy", "notify"})

\* the consumer adds the second frame of an input whose producer is about
\* to send a third one
C26_Witness ==
    \E i \in Bound :
        /\ ConsumerReads(i)
        /\ Len(sent[i]) = 2
        /\ prod[i].pc = "wait"

\* C27: of the write token and the read token of an input at most one is
\* there; a notify finds its channel empty; a producer has copied at most
\* one frame that the consumer has not added yet.
C27_MixerOneInFlight ==
    \A i \in Bound :
        /\ input[i].write + input[i].read <= 1
        /\ prod[i].pc = "notify" => input[i].read = 0
        /\ (src.pc = "notify" /\ inputs[src.i] = i) => input[i].write = 0
        /\ Len(sent[i]) - Len(mixed[i]) \in {0, 1}

\* a producer is one frame ahead and waits, no token of its input is out
C27_Witness ==
    \E i \in Bound :
        /\ Len(sent[i]) = 2
        /\ Len(mixed[i]) = 1
        /\ prod[i].pc = "wait"
        /\ input[i].write = 0
        /\ input[i].read = 1

\* the inputs that have been added to the frame under construction
Contributed ==
    {i \in InputIds : \E k \in 1..Len(mixed[i]) : mixed[i][k].pull = Len(emitted) + 1}

Live == {inputs[k] : k \in 1..Len(inputs)}

InPull == src.pc \in {"loop", "add", "notify"}

\* C28: the inputs added to the frame under construction are live inputs;
\* during a pull the number of live inputs stays or drops by one, for an
\* input whose producer has flushed; a frame is returned with every live
\* input added to it, and once every live input is added the loop is over.
C28_MixerAddedLive ==
    /\ [](Contributed \subseteq Live)
    /\ [](Cardinality(Contributed) <= Len(inputs))
    /\ []((src.pc = "loop" /\ Live # {}) => (Contributed = Live <=> src.i > Len(inputs)))
    /\ [][Running =>
            \/ inputs' = inputs
            \/ /\ InPull
               /\ Len(inputs') = Len(inputs) - 1
               /\ \E i \in Live : Live' = Live \ {i} /\ prod[i].pc = "flushed"]_vars
    /\ [][emitted' # emitted => (Contributed = Live /\ Live # {})]_vars

\* a frame is returned that only one of two inputs bound is added to
C28_Witness ==
    /\ src.pc = "idle"
    /\ Cardinality(Bound) = 2
    /\ Len(inputs) = 1
    /\ \E i \in Bound : \E j \in Bound :
          /\ Len(mixed[i]) = 2
          /\ Len(mixed[j]) = 1
          /\ Len(emitted) = 2

\* ---- Mixer cancellation properties
InSinkFunc(i) == prod[i].pc \in {"wait", "copy", "notify"}

\* no callback of the mixer is running, and the source has not failed
Quiet ==
    /\ \A i \in InputIds : ~InSinkFunc(i)
    /\ ~InPull
    /\ src.err = "none"

\* C21: once the context is done, a producer inside SinkFunc, waiting for
\* its write token or not, returns, and the consumer inside SourceFunc,
\* waiting for a read token or not, returns, with a frame or EOF and no
\* error: again and again no callback is running, none stays blocked.
C21_MixerCancelUnblocks == cancelled ~> Quiet

\* after cancellation a producer has left its wait for the write token
\* without one, and the consumer has returned having dropped an input that
\* had no frame staged and was not flushed
C21_Witness ==
    /\ cancelled
    /\ src.pc \in {"idle", "eof"}
    /\ \E i \in Bound :
          /\ prod[i].pc = "stopped"
          /\ input[i].write = 0
          /\ Len(sent[i]) < gens[i].limit
    /\ \E i \in Bound :
          /\ input[i].freed
          /\ ~input[i].closed

\* ---- Mixer termination
\* every producer bound has sent its frames and flushed
AllFlushed == \A i \in Bound : prod[i].pc = "flushed" /\ Len(sent[i]) = gens[i].limit

\* C24: once the source is bound, with every line scheduled, every SinkFunc
\* call returns, every producer flushes and the source returns EOF.
C24_MixerTerminates ==
    Running ~> (src.pc \in {"eof", "flushed"} /\ AllFlushed)

\* EOF after two producers of different length: the short one flushed
\* while the long one was still sending
C24_Witness ==
    /\ src.pc = "eof"
    /\ AllFlushed
    /\ Cardinality(Bound) = 2
    /\ \E i \in Bound : \E j \in Bound :
          /\ Len(sent[i]) = 1
          /\ Len(sent[j]) = MaxFrames
          /\ Len(emitted) = MaxFrames

\* ---- Repeater registration
\* the frames enqueued for source s so far: returned, in its hands, queued
Enqueued(s) ==
    Len(received[s]) + Len(mailbox[s].queue) + (IF rsrc[s].pc = "copy" THEN 1 ELSE 0)

\* the delivery loop of the sink has not got to the mailbox of s yet
NotYetSent(s) ==
    /\ rsink.pc = "send"
    /\ \E i \in 1..Len(sources) : sources[i] = s /\ i >= rsink.i

\* a call of Repeater.Source()
Registers == Len(sources') = Len(sources) + 1

\* C23: a Source() call between two frames leaves the mailboxes and the
\* frames of the sources registered before as they are; every source, early
\* or late, is enqueued each frame the sink is called with after its
\* registration and none from before, dequeues them in order, and at EOF
\* has returned all of them.
C23_RepeaterLateSource ==
    /\ [](\A s \in Registered :
             /\ Enqueued(s) + (IF NotYetSent(s) THEN 1 ELSE 0)
                   = Len(dispatched) - rsrc[s].regAt
             /\ \A k \in 1..Len(received[s]) :
                   IsCopy(received[s][k], dispatched[rsrc[s].regAt + k])
             /\ \A i \in 1..Len(mailbox[s].queue) :
                   IsCopy(pool[mailbox[s].queue[i].buffer].data,
                          dispatched[rsrc[s].regAt + Len(received[s]) + i
                                       + (IF rsrc[s].pc = "copy" THEN 1 ELSE 0)])
             /\ AtEOF(s) => Len(received[s]) = Len(dispatched) - rsrc[s].regAt)
    /\ [][Registers =>
            /\ \A s \in Registered :
                  /\ rsrc'[s] = rsrc[s]
                  /\ mailbox'[s] = mailbox[s]
                  /\ received'[s] = received[s]
                  /\ \E i \in 1..Len(sources') : sources'[i] = s
            /\ \E t \in Registered' \ Registered :
                  /\ rsrc'[t].regAt = Len(dispatched)
                  /\ mailbox'[t].queue = <<>>]_vars

\* a source registered after the first frame is at EOF with the later
\* frames, the source registered before it with all of them
C23_Witness ==
    \E s \in Registered, t \in Registered :
        /\ rsrc[s].regAt = 0
        /\ rsrc[t].regAt = 1
        /\ AtEOF(s) /\ AtEOF(t)
        /\ Len(received[s]) = MaxFrames
        /\ Len(received[t]) = MaxFrames - 1

\* ---- Repeater cancellation
\* C22: once the pipeline is cancelled, a sink inside SinkFunc, blocked on a
\* full mailbox or not, returns.
C22_RepeaterCancelUnblocks == rcancelled ~> rsink.pc # "send"

\* ---- audio.Source properties
RECURSIVE Flatten(_)
Flatten(fs) == IF fs = <<>> THEN <<>> ELSE Head(fs) \o Flatten(Tail(fs))

\* C25: the frames audio.Source returns are, one after the other, the
\* samples of the signal from its start; every frame has the capacity C
\* except the last, which has L mod C samples when that is not 0; the pull
\* after the last sample returns 0 samples and EOF, with the whole signal
\* returned.
C25_SourceFrames ==
    LET L == Length(fdata, TestChannels)
        n == Len(fout)
    IN fpc # "none" =>
        /\ Flatten(fout) = SubSeq(fdata, 1, fpos * TestChannels)
        /\ \A k \in 1..n : Len(fout[k]) = freads[k] * TestChannels
        /\ \A k \in 1..n : freads[k] = (IF k * fcap <= L THEN fcap ELSE L % fcap)
        /\ \A k \in 1..n : freads[k] > 0
        /\ fpc = "open" => Len(freads) = n
        /\ fpc = "eof" =>
              /\ Flatten(fout) = fdata
              /\ Len(freads) = n + 1
              /\ freads[n + 1] = 0
              /\ n = (L + fcap - 1) \div fcap

\* TestSource, "Last five": frames of 2, 2 and 1 samples, then EOF
C25_Witness ==
    /\ fpc = "eof"
    /\ fcap = BufferSize
    /\ fout = <<(<<5, 6>>), (<<7, 8>>), (<<9>>)>>
    /\ freads = <<2, 2, 1, 0>>

\* ---- Repeater frames and mailboxes
\* C31: the frame a source dequeues, and the frame its pull returns, has
\* the length of the frame the sink was called with, a shorter last frame
\* included.
C31_RepeaterKeepsLength ==
    \A s \in Registered :
        /\ \A k \in 1..Len(received[s]) :
              Len(received[s][k]) = Len(dispatched[rsrc[s].regAt + k])
        /\ rsrc[s].pc = "copy" =>
              Len(pool[rsrc[s].msg.buffer].data)
                = Len(dispatched[rsrc[s].regAt + Len(received[s]) + 1])

\* the frames source s has taken out of its mailbox
Dequeued(s) == Len(received[s]) + (IF rsrc[s].pc = "copy" THEN 1 ELSE 0)

\* C32: a mailbox holds at most one frame; a sink call on a full mailbox
\* can neither send nor return; when a sink call is over every frame
\* dispatched since a source registered is in its mailbox or dequeued, so
\* all but the last are dequeued; and the call with frame k + 1 gets past a
\* mailbox only with frame k dequeued from it.
C32_RepeaterBackPressure ==
    /\ \A s \in SourceIds : Len(mailbox[s].queue) <= 1
    /\ (rsink.pc = "send" /\ rsink.i <= Len(sources)) =>
          /\ ~ENABLED RepeaterSinkReturn
          /\ MailboxFull(mailbox[sources[rsink.i]]) => ~ENABLED RepeaterSinkSend
    /\ rsink.pc # "send" =>
          \A s \in Registered :
              /\ Dequeued(s) + Len(mailbox[s].queue) = Len(dispatched) - rsrc[s].regAt
              /\ Dequeued(s) >= Len(dispatched) - rsrc[s].regAt - 1
    /\ rsink.pc = "send" =>
          \A i \in 1..Len(sources) :
              i < rsink.i =>
                  Dequeued(sources[i]) >= Len(dispatched) - rsrc[sources[i]].regAt - 1

\* the sink is called with the third frame while one source still has the
\* second in its mailbox and the other has dequeued it
C32_Witness ==
    /\ rsink.pc = "send"
    /\ rsink.i = 2
    /\ Len(sources) = 2
    /\ Len(dispatched) = 3
    /\ MailboxFull(mailbox[sources[2]])
    /\ Dequeued(sources[2]) = 1
    /\ Dequeued(sources[1]) >= 2

\* the mailboxes on r.sources
Listed == {sources[i] : i \in 1..Len(sources)}

\* C33: no close and no send meets a closed mailbox: a flush closes the
\* mailboxes on the list, none of them closed before, and leaves the list
\* empty, so every registered mailbox is on the list or closed, never both,
\* and a flush or a delivery after it touches no closed mailbox.
C33_RepeaterClosedOnce ==
    /\ [](rpanic = "none")
    /\ [](\A s \in Registered : (s \in Listed) # mailbox[s].closed)
    /\ [][(rsink.pc # "flushed" /\ rsink'.pc = "flushed") =>
            /\ sources' = <<>>
            /\ \A s \in Listed : ~mailbox[s].closed /\ mailbox'[s].closed
            /\ \A s \in SourceIds \ Listed : mailbox'[s] = mailbox[s]]_vars
    /\ [][\A s \in SourceIds :
            Len(mailbox'[s].queue) > Len(mailbox[s].queue) =>
                (s \in Listed /\ ~mailbox[s].closed)]_vars

\* the sink was flushed, called with another frame and flushed again: a
\* closed mailbox was not sent the last frame
C33_Witness ==
    /\ rsink.pc = "flushed"
    /\ Len(dispatched) >= 2
    /\ \E s \in Registered :
          /\ mailbox[s].closed
          /\ Dequeued(s) + Len(mailbox[s].queue) < Len(dispatched) - rsrc[s].regAt

\* the sources frame k is enqueued for: those registered before the sink
\* was called with it
Recipients(k) == {s \in Registered : rsrc[s].regAt < k}

\* C37: the count in every message, queued or dequeued, is the number of
\* mailboxes its frame is enqueued into; no source registers while a frame
\* is delivered, so during a delivery those are the mailboxes on the list.
C37_RepeaterCountIsMailboxes ==
    /\ [](\A s \in Registered :
             /\ \A i \in 1..Len(mailbox[s].queue) :
                   mailbox[s].queue[i].sources
                     = Cardinality(Recipients(rsrc[s].regAt + Dequeued(s) + i))
             /\ rsrc[s].pc \in {"copy", "release"} =>
                   rsrc[s].msg.sources
                     = Cardinality(Recipients(rsrc[s].regAt + Len(received[s])
                                                + (IF rsrc[s].pc = "copy" THEN 1 ELSE 0))))
    /\ [](rsink.pc = "send" => Recipients(Len(dispatched)) = Listed)
    /\ [][rsink.pc = "send" => sources' = sources]_vars

\* a frame delivered to one mailbox and the next one to two, after a
\* second source registered in between
C37_Witness ==
    \E s \in Registered, t \in Registered :
        /\ rsrc[s].regAt = 0
        /\ rsrc[t].regAt = 1
        /\ rsrc[s].pc = "copy"
        /\ rsrc[s].msg.sources = 1
        /\ mailbox[s].queue # <<>>
        /\ mailbox[s].queue[1].sources = 2
        /\ mailbox[t].queue # <<>>

\* ---- Track list
OnList(ls, h) == {TimelineOf(ls, h)[i] : i \in 1..Len(TimelineOf(ls, h))}

\* the list from head by next pointers: it ends, head has no predecessor,
\* tail is its last link and has no successor, and prev is the inverse of next
WellFormed(ls, h, tl) ==
    LET chain == TimelineOf(ls, h) IN
    /\ (h = 0) = (tl = 0)
    /\ h # 0 =>
          /\ ls[h].prev = 0
          /\ ls[tl].next = 0
          /\ chain[Len(chain)] = tl
          /\ \A i \in 1..Len(chain) - 1 :
                /\ ls[chain[i]].next = chain[i + 1]
                /\ ls[chain[i + 1]].prev = chain[i]
          /\ \A i \in 1..Len(chain) : \A j \in 1..Len(chain) :
                chain[i] = chain[j] => i = j

\* C34: after every AddClip that returned the list of the Track is well
\* formed (head without predecessor, tail without successor and last on the
\* list, l.next.prev = l and l.prev.next = l), and the links the call
\* created are reachable from head by next pointers.
C34_TrackListWellFormed ==
    /\ [](terr = "none" => WellFormed(links, head, tail))
    /\ [][(Len(added') = Len(added) + 1 /\ terr' = "none")
            => \A l \in (Len(links) + 1)..Len(links') : l \in OnList(links', head')]_vars


\* C38: every Track operation returns: no AddClip runs out of the align-next
\* recursions and split insertions it is followed through, no walk along
\* next pointers goes on for ever, and no pull of a source stays in its
\* fill loop.
C38_TrackTerminates == terr # "hang"

\* a split tail was inserted by an AddClip, and a read that came to its end
\* passed a link without samples that lies on the list inside its window
C38_Witness ==
    /\ terr = "none"
    /\ Len(links) > Len(added)
    /\ rd.pc = "eof"
    /\ Len(frames) >= 2
    /\ \E l \in OnList(links, head) :
          /\ links[l].data.len = 0
          /\ rd.start < links[l].at
          /\ links[l].at < rd.end


\* ---- Track and the frame capacity
\* C39: the samples of a read do not depend on the capacity of the frames:
\* a read of a window that came to its end with frames of capacity C has
\* produced the samples the read of the same window of the same Track with
\* frames of capacity C - 1 produced, every frame zeroed before its pull,
\* and no pull of it fails.
C39_TrackCapacityIndependent ==
    rd.cap > 1 =>
        /\ rd.pc # "failed"
        /\ rd.pc = "eof" => played = rd.before

C39_Witness ==
    /\ rd.pc = "eof"
    /\ rd.cap = MaxFrameCap
    /\ Len(added) >= 2
    /\ Len(played) >= 4
    /\ \E j \in 1..Len(played) - 1 : played[j] = 0 /\ played[j + 1] # 0
    /\ Len(played) % rd.cap # 0


\* ---- Mixer frames under cancellation
\* the inputs a step of the consumer took off m.inputs
Removed == {i \in InputIds : (\E k \in 1..Len(inputs) : inputs[k] = i)
                              /\ ~(\E k \in 1..Len(inputs') : inputs'[k] = i)}

\* C35: a staging frame the consumer has released to the pool is not
\* written by its producer and not read by the consumer afterwards, and the
\* staging frames and the accumulator are released at most once.
C35_MixerNoUseAfterRelease ==
    /\ [][\A i \in InputIds : input[i].freed =>
             /\ sent'[i] = sent[i]
             /\ input'[i].buffer = input[i].buffer
             /\ mixed'[i] = mixed[i]]_vars
    /\ [][\A i \in Removed : ~input[i].freed /\ input'[i].freed]_vars
    /\ [][\A i \in InputIds : (~input[i].freed /\ input'[i].freed) => i \in Removed]_vars
    /\ [][output.freed => src.pc = "flushed" /\ src'.pc = "flushed"]_vars


\* ---- Mixer sink allocation that is rejected
\* C36: a sink allocation that returns an error changes nothing: it is not
\* the first one, the recorded sample rate and channels stay, no input is
\* appended or allocated, and no producer is bound.
C36_MixerRejectedChangesNothing ==
    [][(src.pc = "unbound" /\ src'.pc = "unbound" /\ bind'.err # "none") =>
          /\ initialized
          /\ initialized' = initialized
          /\ sampleRate' = sampleRate
          /\ channels' = channels
          /\ inputs' = inputs
          /\ input' = input
          /\ gens' = gens
          /\ prod' = prod]_vars

\* an input is bound with the sample rate of the first call, and the call
\* after it was rejected for its sample rate
C36_Witness ==
    /\ bind.err = "ErrDifferentSampleRates"
    /\ bind.sr # sampleRate
    /\ Len(inputs) = 1
    /\ sampleRate = 2 * TestSampleRate
    /\ src.pc = "unbound"


====
